---- MODULE Spec2Model ----
(***************************************************************************)
(* Jsonify (src/src/main.rs): a JSON document kept as a flat collection of *)
(* (dotted path, typed leaf) pairs.  The store is a                        *)
(* HashSet<(String, JsonifyValue)>: a set of PAIRS, hashed and compared on *)
(* the path and the leaf together.                                         *)
(*                                                                         *)
(* JSON text is modelled as a sequence of lexical tokens; from_str is a    *)
(* recursive-descent parser over the tokens and to_string the compact      *)
(* serializer, so that the text round trip made by parse_json on every     *)
(* nested value is computed, not assumed.                                  *)
(***************************************************************************)
EXTENDS Integers, Sequences, FiniteSets, TLC

VARIABLES values, last, before, query, calls

vars == <<values, last, before, query, calls>>

(***************************************************************************)
(* Bound of the exploration: API calls made on one Document after its      *)
(* construction.                                                           *)
(***************************************************************************)
MaxCalls == 2

(***************************************************************************)
(* serde_json::Value                                                       *)
(***************************************************************************)
Null == [kind |-> "Null"]

Bool(b) == [kind |-> "Bool", b |-> b]

Number(n) == [kind |-> "Number", n |-> n]

String(s) == [kind |-> "String", s |-> s]

Array(items) == [kind |-> "Array", items |-> items]

Object(map) == [kind |-> "Object", map |-> map]

EmptyMap == [k \in {} |-> Null]

\* Map::insert: a later insert of the same key replaces the earlier one.
MapInsert(map, key, value) ==
    [k \in (DOMAIN map) \cup {key} |-> IF k = key THEN value ELSE map[k]]

(***************************************************************************)
(* Lexical tokens of the JSON texts of the model.  Object keys and string  *)
(* values are drawn from StrPool (listed in the byte order a BTreeMap      *)
(* iterates its keys in), numbers from NumPool.                            *)
(***************************************************************************)
StrPool == <<"", "[0]", "a", "a.b", "a[0]", "b", "s", "x", "x[0]", "x[1]">>

NumPool == {0, 1}

Quote(s) == "\"" \o s \o "\""

StrToks == {Quote(StrPool[i]) : i \in 1..Len(StrPool)}

NumToks == {ToString(n) : n \in NumPool}

Unquote(tok) == CHOOSE s \in {StrPool[i] : i \in 1..Len(StrPool)} : Quote(s) = tok

NumOf(tok) == CHOOSE n \in NumPool : ToString(n) = tok

(***************************************************************************)
(* serde_json::from_str: one value, then end of input.                     *)
(***************************************************************************)
Err == [ok |-> FALSE]

Ok(val, next) == [ok |-> TRUE, val |-> val, next |-> next]

RECURSIVE ParseValue(_, _)
RECURSIVE ParseElems(_, _, _)
RECURSIVE ParseMembers(_, _, _)

ParseValue(t, i) ==
    IF i > Len(t) THEN Err
    ELSE LET tok == t[i] IN
         CASE tok = "null" -> Ok(Null, i + 1)
           [] tok = "true" -> Ok(Bool(TRUE), i + 1)
           [] tok = "false" -> Ok(Bool(FALSE), i + 1)
           [] tok \in NumToks -> Ok(Number(NumOf(tok)), i + 1)
           [] tok \in StrToks -> Ok(String(Unquote(tok)), i + 1)
           [] tok = "[" ->
                IF i + 1 <= Len(t) /\ t[i + 1] = "]"
                THEN Ok(Array(<<>>), i + 2)
                ELSE ParseElems(t, i + 1, <<>>)
           [] tok = "{" ->
                IF i + 1 <= Len(t) /\ t[i + 1] = "}"
                THEN Ok(Object(EmptyMap), i + 2)
                ELSE ParseMembers(t, i + 1, EmptyMap)
           [] OTHER -> Err

ParseElems(t, i, acc) ==
    LET r == ParseValue(t, i) IN
    IF ~r.ok \/ r.next > Len(t) THEN Err
    ELSE IF t[r.next] = "," THEN ParseElems(t, r.next + 1, Append(acc, r.val))
    ELSE IF t[r.next] = "]" THEN Ok(Array(Append(acc, r.val)), r.next + 1)
    ELSE Err

ParseMembers(t, i, acc) ==
    IF i + 1 > Len(t) \/ t[i] \notin StrToks \/ t[i + 1] # ":" THEN Err
    ELSE LET r == ParseValue(t, i + 2) IN
         IF ~r.ok \/ r.next > Len(t) THEN Err
         ELSE LET map == MapInsert(acc, Unquote(t[i]), r.val) IN
              IF t[r.next] = "," THEN ParseMembers(t, r.next + 1, map)
              ELSE IF t[r.next] = "}" THEN Ok(Object(map), r.next + 1)
              ELSE Err

from_str(t) ==
    LET r == ParseValue(t, 1) IN
    IF r.ok /\ r.next = Len(t) + 1 THEN r ELSE Err

\* serde_json::from_str(json).unwrap_or(Value::Null)
from_str_unwrap_or_Null(t) ==
    LET r == from_str(t) IN IF r.ok THEN r.val ELSE Null

(***************************************************************************)
(* Value::to_string: the compact serialization; an object's members are    *)
(* written in the order of its keys.                                       *)
(***************************************************************************)
RECURSIVE to_string(_)
RECURSIVE ElemsText(_, _)
RECURSIVE MembersText(_, _, _)

to_string(v) ==
    CASE v.kind = "Null" -> <<"null">>
      [] v.kind = "Bool" -> IF v.b THEN <<"true">> ELSE <<"false">>
      [] v.kind = "Number" -> <<ToString(v.n)>>
      [] v.kind = "String" -> <<Quote(v.s)>>
      [] v.kind = "Array" -> <<"[">> \o ElemsText(v.items, 1) \o <<"]">>
      [] v.kind = "Object" -> <<"{">> \o MembersText(v.map, 1, TRUE) \o <<"}">>

ElemsText(items, i) ==
    IF i > Len(items) THEN <<>>
    ELSE (IF i > 1 THEN <<",">> ELSE <<>>) \o to_string(items[i])
         \o ElemsText(items, i + 1)

MembersText(map, i, first) ==
    IF i > Len(StrPool) THEN <<>>
    ELSE IF StrPool[i] \in DOMAIN map
         THEN (IF first THEN <<>> ELSE <<",">>)
              \o <<Quote(StrPool[i]), ":">> \o to_string(map[StrPool[i]])
              \o MembersText(map, i + 1, FALSE)
         ELSE MembersText(map, i + 1, first)

(***************************************************************************)
(* JsonifyValue and the three copies of the type-tag match.                *)
(***************************************************************************)
JsonifyValue(value, value_type) == [value |-> value, value_type |-> value_type]

parse_json_value_type(json) ==
    CASE json.kind = "String" -> "String"
      [] json.kind = "Number" -> "Number"
      [] json.kind = "Bool" -> "Bool"
      [] json.kind = "Null" -> "Null"
      [] OTHER -> "Unknown"

\* the tag match of replace with the arms of Bool and Number exchanged
replace_value_type_swapped(new_value) ==
    CASE new_value.kind = "String" -> "String"
      [] new_value.kind = "Number" -> "Bool"
      [] new_value.kind = "Bool" -> "Number"
      [] new_value.kind = "Null" -> "Null"
      [] OTHER -> "Unknown"

replace_value_type(new_value) ==
    CASE new_value.kind = "String" -> "String"
      [] new_value.kind = "Number" -> "Number"
      [] new_value.kind = "Bool" -> "Bool"
      [] new_value.kind = "Null" -> "Null"
      [] OTHER -> "Unknown"

add_to_json_value_type(value) ==
    CASE value.kind = "String" -> "String"
      [] value.kind = "Number" -> "Number"
      [] value.kind = "Bool" -> "Bool"
      [] value.kind = "Null" -> "Null"
      [] OTHER -> "Unknown"

(***************************************************************************)
(* Jsonify::parse_json: parse the text (Null when it does not parse), then *)
(* recurse on the text of every member or element, or insert the leaf.     *)
(***************************************************************************)
ObjectPrefix(prefix, key) == IF prefix = "" THEN key ELSE prefix \o "." \o key

ArrayPrefix(prefix, index) == prefix \o "[" \o ToString(index) \o "]"

RECURSIVE parse_json(_, _, _)

parse_json(text, prefix, hashset) ==
    LET json == from_str_unwrap_or_Null(text) IN
    CASE json.kind = "Object" ->
           hashset \cup UNION { parse_json(to_string(json.map[key]),
                                           ObjectPrefix(prefix, key), {})
                                : key \in DOMAIN json.map }
      [] json.kind = "Array" ->
           hashset \cup UNION { parse_json(to_string(json.items[i]),
                                           ArrayPrefix(prefix, i - 1), {})
                                : i \in 1..Len(json.items) }
      [] OTHER ->
           hashset \cup { <<prefix, JsonifyValue(json, parse_json_value_type(json))>> }

(***************************************************************************)
(* Inputs of the API calls.                                                *)
(***************************************************************************)
\* {"a":0}
Doc_a0 == <<"{", Quote("a"), ":", "0", "}">>

\* {"a":1}
Doc_a1 == <<"{", Quote("a"), ":", "1", "}">>

\* {"b":1}
Doc_b1 == <<"{", Quote("b"), ":", "1", "}">>

\* {"a":{"b":0}}
Doc_nested == <<"{", Quote("a"), ":", "{", Quote("b"), ":", "0", "}", "}">>

\* {"a.b":1,"a":{"b":0}}
Doc_dotted == <<"{", Quote("a.b"), ":", "1", ",",
                Quote("a"), ":", "{", Quote("b"), ":", "0", "}", "}">>

\* {"a.b":0,"a":{"b":0}}
Doc_dotted_same == <<"{", Quote("a.b"), ":", "0", ",",
                     Quote("a"), ":", "{", Quote("b"), ":", "0", "}", "}">>

\* {"x":["s",null]}
Doc_array == <<"{", Quote("x"), ":", "[", Quote("s"), ",", "null", "]", "}">>

\* {}
Doc_empty_object == <<"{", "}">>

\* null
Doc_null == <<"null">>

\* the empty input
Doc_empty_input == <<>>

\* {"a":     (the input ends inside the object)
Doc_truncated == <<"{", Quote("a"), ":">>

\* {"a":0} x   (an unknown word after the value)
Doc_trailing == <<"{", Quote("a"), ":", "0", "}", "x">>

Texts ==
    { Doc_a0, Doc_a1, Doc_b1, Doc_nested, Doc_dotted, Doc_dotted_same, Doc_array,
      Doc_empty_object, Doc_null, Doc_empty_input, Doc_truncated, Doc_trailing }

WellFormed(text) == from_str(text).ok

Keys == {"a", "a.b", "x", ""}

Values ==
    { Null, Bool(TRUE), Number(0), Number(1), String("s"), Array(<<Number(0)>>) }

(***************************************************************************)
(* Results of the calls.                                                   *)
(***************************************************************************)
Unit == [kind |-> "unit"]

RetBool(b) == [kind |-> "bool", b |-> b]

Some(v) == [kind |-> "some", value |-> v]

None == [kind |-> "none"]

RetKeys(seq) == [kind |-> "keys", keys |-> seq]

RetText(text) == [kind |-> "text", text |-> text]

Call(op, key, value, text, ret) ==
    [op |-> op, key |-> key, value |-> value, text |-> text, ret |-> ret]

NoQuery == [op |-> "none", key |-> "", ret |-> Unit]

Query(op, key, ret) == [op |-> op, key |-> key, ret |-> ret]

(***************************************************************************)
(* Iteration over the HashSet.  Its order is unspecified (RandomState):    *)
(* `find` may return any entry that matches, and a loop over the set may   *)
(* meet the entries in any order.                                          *)
(***************************************************************************)
\* self.values.iter().find(|(k, _)| k == key): the entries it may return
Find(hashset, key) == { e \in hashset : e[1] = key }

\* the orders self.values.iter() may yield the entries in
IterOrders(hashset) ==
    { ord \in [1..Cardinality(hashset) -> hashset] :
        \A i, j \in 1..Cardinality(hashset) : i # j => ord[i] # ord[j] }

(***************************************************************************)
(* The operations of Jsonify on a store, as functions of the store.        *)
(***************************************************************************)
\* Jsonify::new
NewValues(json) == parse_json(json, "", {})

\* Jsonify::replace, with `existing` the entry found
ReplaceValues(hashset, existing, key, new_value) ==
    (hashset \ {existing})
        \cup { <<key, JsonifyValue(new_value, replace_value_type(new_value))>> }

\* Jsonify::add_to_json
AddValues(hashset, key, value) ==
    hashset \cup { <<key, JsonifyValue(value, add_to_json_value_type(value))>> }

\* remove_from_json removing by leaf: every entry holding the leaf found goes
RemoveValuesByLeaf(hashset, entry) == { e \in hashset : e[2] # entry[2] }

\* Jsonify::remove_from_json, with `entry` the entry found
RemoveValues(hashset, entry) == hashset \ {entry}

\* merge_json as a replace-all: the store becomes the flattened text alone
MergeValuesReplaceAll(hashset, other_json) ==
    parse_json(other_json, "", {})

\* merge_json removing an entry when its insert finds it already stored
MergeValuesToggle(hashset, other_json) ==
    LET new_values == parse_json(other_json, "", {}) IN
    (hashset \ new_values) \cup (new_values \ hashset)

\* Jsonify::merge_json
MergeValues(hashset, other_json) ==
    LET new_values == parse_json(other_json, "", {}) IN
    hashset \cup new_values

\* the pairs <<p, q>> of strings of StrPool with p a proper prefix of q
ProperPrefixPairs ==
    { <<"", StrPool[i]>> : i \in 2..Len(StrPool) }
        \cup { <<"a", "a.b">>, <<"a", "a[0]">>, <<"x", "x[0]">>, <<"x", "x[1]">> }

\* has_key matching with starts_with: a prefix of a stored path is found too
HasKeyPrefix(hashset, key) ==
    \E e \in hashset : e[1] = key \/ <<key, e[1]>> \in ProperPrefixPairs

\* Jsonify::has_key
HasKey(hashset, key) == \E e \in hashset : e[1] = key

\* Jsonify::get_value: the results a call may give
GetValueResults(hashset, key) ==
    IF Find(hashset, key) = {} THEN {None}
    ELSE { Some(e[2].value) : e \in Find(hashset, key) }

\* Jsonify::to_json: json_map after inserting the entries in the order ord
RECURSIVE JsonMap(_, _, _)
JsonMap(ord, i, json_map) ==
    IF i > Len(ord) THEN json_map
    ELSE JsonMap(ord, i + 1, MapInsert(json_map, ord[i][1], ord[i][2].value))

(***************************************************************************)
(* State: `values` is the field of the Document; `last` is the latest      *)
(* constructing or mutating call with its result, `before` the store it    *)
(* was made on, `query` the latest read made since, `calls` the number of  *)
(* calls made on the Document.                                             *)
(***************************************************************************)
InitOn(texts) ==
    \E json \in texts :
        /\ values = NewValues(json)
        /\ last = Call("new", "", Null, json, Unit)
        /\ before = {}
        /\ query = NoQuery
        /\ calls = 0

Init == InitOn(Texts)

\* let doc = Jsonify::new(json): the caller starts over with a new Document
new(json) ==
    /\ values' = NewValues(json)
    /\ last' = Call("new", "", Null, json, Unit)
    /\ before' = {}
    /\ query' = NoQuery
    /\ calls' = 0

\* replace as an upsert: the else branch inserts the new leaf as well
replace_inserting(key, new_value) ==
    /\ calls < MaxCalls
    /\ \/ \E existing \in Find(values, key) :
            /\ values' = ReplaceValues(values, existing, key, new_value)
            /\ last' = Call("replace", key, new_value, <<>>, RetBool(TRUE))
       \/ /\ Find(values, key) = {}
          /\ values' = values \cup { <<key, JsonifyValue(new_value, replace_value_type(new_value))>> }
          /\ last' = Call("replace", key, new_value, <<>>, RetBool(FALSE))
    /\ before' = values
    /\ query' = NoQuery
    /\ calls' = calls + 1

replace(key, new_value) ==
    /\ calls < MaxCalls
    /\ \/ \E existing \in Find(values, key) :
            /\ values' = ReplaceValues(values, existing, key, new_value)
            /\ last' = Call("replace", key, new_value, <<>>, RetBool(TRUE))
       \/ /\ Find(values, key) = {}
          /\ values' = values
          /\ last' = Call("replace", key, new_value, <<>>, RetBool(FALSE))
    /\ before' = values
    /\ query' = NoQuery
    /\ calls' = calls + 1

add_to_json(key, value) ==
    /\ calls < MaxCalls
    /\ values' = AddValues(values, key, value)
    /\ last' = Call("add_to_json", key, value, <<>>, Unit)
    /\ before' = values
    /\ query' = NoQuery
    /\ calls' = calls + 1

remove_from_json(key) ==
    /\ calls < MaxCalls
    /\ \/ \E entry \in Find(values, key) :
            /\ values' = RemoveValues(values, entry)
            /\ last' = Call("remove_from_json", key, Null, <<>>, RetBool(TRUE))
       \/ /\ Find(values, key) = {}
          /\ values' = values
          /\ last' = Call("remove_from_json", key, Null, <<>>, RetBool(FALSE))
    /\ before' = values
    /\ query' = NoQuery
    /\ calls' = calls + 1

merge_json(other_json) ==
    /\ calls < MaxCalls
    /\ values' = MergeValues(values, other_json)
    /\ last' = Call("merge_json", "", Null, other_json, Unit)
    /\ before' = values
    /\ query' = NoQuery
    /\ calls' = calls + 1

get_value(key) ==
    /\ calls < MaxCalls
    /\ \E ret \in GetValueResults(values, key) :
            query' = Query("get_value", key, ret)
    /\ calls' = calls + 1
    /\ UNCHANGED <<values, last, before>>

has_key(key) ==
    /\ calls < MaxCalls
    /\ query' = Query("has_key", key, RetBool(HasKey(values, key)))
    /\ calls' = calls + 1
    /\ UNCHANGED <<values, last, before>>

get_keys ==
    /\ calls < MaxCalls
    /\ \E ord \in IterOrders(values) :
            query' = Query("get_keys", "",
                           RetKeys([i \in 1..Len(ord) |-> ord[i][1]]))
    /\ calls' = calls + 1
    /\ UNCHANGED <<values, last, before>>

to_json ==
    /\ calls < MaxCalls
    /\ \E ord \in IterOrders(values) :
            query' = Query("to_json", "",
                           RetText(to_string(Object(JsonMap(ord, 1, EmptyMap)))))
    /\ calls' = calls + 1
    /\ UNCHANGED <<values, last, before>>

NextOn(texts) ==
    \/ \E json \in texts : new(json)
    \/ \E key \in Keys, new_value \in Values : replace(key, new_value)
    \/ \E key \in Keys, value \in Values : add_to_json(key, value)
    \/ \E key \in Keys : remove_from_json(key)
    \/ \E other_json \in texts : merge_json(other_json)
    \/ \E key \in Keys : get_value(key)
    \/ \E key \in Keys : has_key(key)
    \/ get_keys
    \/ to_json

Next == NextOn(Texts)

Spec == Init /\ [][Next]_vars

(***************************************************************************)
(* The same program given only the texts of the intended input domain:     *)
(* well-formed JSON objects whose keys are identifier-like (no '.', '[' or *)
(* ']' inside a key), so that every text parses and flattening one text    *)
(* never gives two positions the same path.                                *)
(***************************************************************************)
PlainTexts ==
    { text \in Texts : WellFormed(text) /\ from_str(text).val.kind = "Object" }
        \ {Doc_dotted, Doc_dotted_same}

InitPlain == InitOn(PlainTexts)

NextPlain == NextOn(PlainTexts)

SpecPlain == InitPlain /\ [][NextPlain]_vars

(***************************************************************************)
(* Vocabulary of the properties.                                           *)
(***************************************************************************)
\* the paths stored in a store
Paths(hashset) == { e[1] : e \in hashset }

\* the leaf a call with value v stores: v with the tag of its kind
Leaf(v) == JsonifyValue(v, parse_json_value_type(v))

\* the store answers for path p as a path-to-leaf map holding p |-> v does
HoldsExactly(hashset, p, v) ==
    /\ Find(hashset, p) = { <<p, Leaf(v)>> }
    /\ GetValueResults(hashset, p) = { Some(v) }

\* a get_value(p) made since the last mutation returned something else than v
ReadOtherThan(p, v) ==
    query.op = "get_value" /\ query.key = p /\ query.ret # Some(v)

(***************************************************************************)
(* C1 - Path uniqueness: in every state reachable by construct and any     *)
(* sequence of replace, addOrSet, remove and merge calls, no two stored    *)
(* entries share a path.                                                   *)
(***************************************************************************)
C1_PathUniqueness ==
    \A e1 \in values : \A e2 \in values : e1[1] = e2[1] => e1 = e2

(***************************************************************************)
(* C2 - Overwrite-on-merge: after merging a well-formed text whose         *)
(* flattening holds leaf v at a path p the Document already held, the      *)
(* Document holds v and nothing else at p, and getValue(p) returns v.      *)
(***************************************************************************)
C2_OverwriteOnMerge ==
    (last.op = "merge_json" /\ WellFormed(last.text)) =>
        \A e \in NewValues(last.text) :
            (e[1] \in Paths(before) /\ Cardinality(Find(NewValues(last.text), e[1])) = 1)
                => /\ HoldsExactly(values, e[1], e[2].value)
                   /\ ~ReadOtherThan(e[1], e[2].value)

(***************************************************************************)
(* C3 - A failed merge is a no-op: merging a text that does not parse      *)
(* leaves the Document exactly as it was.                                  *)
(***************************************************************************)
C3_FailedMergeNoOp ==
    (last.op = "merge_json" /\ ~WellFormed(last.text)) => values = before

(***************************************************************************)
(* C4 - construct on a malformed (non-empty, unparseable) text produces no *)
(* mapping: in particular no entry holding Null in place of the input.     *)
(***************************************************************************)
C4_ConstructMalformedNoMapping ==
    (last.op = "new" /\ ~WellFormed(last.text) /\ last.text # Doc_empty_input)
        => values = {}

(***************************************************************************)
(* C5 - construct on the empty input, on `null` or on `{}` yields a        *)
(* Document with zero entries: no keys, and hasKey false for every path,   *)
(* the empty path included.                                                *)
(***************************************************************************)
C5_ConstructEmptyZeroEntries ==
    (last.op = "new" /\ last.text \in {Doc_empty_input, Doc_null, Doc_empty_object})
        => /\ values = {}
           /\ ~HasKey(values, "")
           /\ (query.op = "has_key" => query.ret = RetBool(FALSE))

(***************************************************************************)
(* C6 - Union-on-merge frame: after merging a well-formed text, every path *)
(* stored before that the flattening of the text does not produce is still *)
(* stored with the same leaf, and reads of it give what they gave before.  *)
(***************************************************************************)
C6_MergeFrame ==
    (last.op = "merge_json" /\ WellFormed(last.text)) =>
        \A p \in Paths(before) \ Paths(NewValues(last.text)) :
            /\ Find(values, p) = Find(before, p)
            /\ GetValueResults(values, p) = GetValueResults(before, p)
            /\ (query.op = "get_value" /\ query.key = p
                    => query.ret \in GetValueResults(before, p))
            /\ (query.op = "has_key" /\ query.key = p => query.ret = RetBool(TRUE))

\* a merge of a well-formed text that added entries to a Document holding a
\* path the text does not produce
C6_Witness ==
    /\ last.op = "merge_json"
    /\ WellFormed(last.text)
    /\ Paths(before) \ Paths(NewValues(last.text)) # {}
    /\ values # before

(***************************************************************************)
(* C7 - addOrSet is an unconditional upsert: after addOrSet(p, v), hasKey  *)
(* (p) is true, the Document holds v and nothing else at p, and getValue   *)
(* (p) returns v, whether p was absent or stored with another value.       *)
(***************************************************************************)
C7_AddOrSetUpsert ==
    last.op = "add_to_json" =>
        /\ HasKey(values, last.key)
        /\ Find(values, last.key) = { <<last.key, JsonifyValue(last.value, add_to_json_value_type(last.value))>> }
        /\ GetValueResults(values, last.key) = { Some(last.value) }
        /\ ~ReadOtherThan(last.key, last.value)

(***************************************************************************)
(* C8 - Remove leaves the path absent: remove(k) returns true iff k was    *)
(* stored; afterwards hasKey(k) is false and a second remove(k) finds no   *)
(* entry and returns false.                                                *)
(***************************************************************************)
C8_RemoveLeavesAbsent ==
    last.op = "remove_from_json" =>
        /\ last.ret = RetBool(HasKey(before, last.key))
        /\ ~HasKey(values, last.key)
        /\ Find(values, last.key) = {}
        /\ (query.op = "has_key" /\ query.key = last.key
                => query.ret = RetBool(FALSE))

(***************************************************************************)
(* C9 - Replace never inserts: replace(p, x) on a path p that is not       *)
(* stored returns false and leaves the Document unchanged.                 *)
(***************************************************************************)
C9_ReplaceNeverInserts ==
    (last.op = "replace" /\ last.key \notin Paths(before)) =>
        /\ last.ret = RetBool(FALSE)
        /\ values = before
        /\ Paths(values) = Paths(before)

\* a replace on a path absent from a Document that holds other paths
C9_Witness ==
    /\ last.op = "replace"
    /\ last.key \notin Paths(before)
    /\ before # {}
    /\ last.ret = RetBool(FALSE)

(***************************************************************************)
(* C10 - Replace on a stored path swaps the leaf: replace(p, newValue)     *)
(* returns true; afterwards the Document holds newValue with its           *)
(* recomputed tag and nothing else at p, getValue(p) returns newValue, and *)
(* the set of stored paths is unchanged.                                   *)
(***************************************************************************)
C10_ReplaceSwapsLeaf ==
    (last.op = "replace" /\ last.key \in Paths(before)) =>
        /\ last.ret = RetBool(TRUE)
        /\ Find(values, last.key) = { <<last.key, JsonifyValue(last.value, replace_value_type(last.value))>> }
        /\ GetValueResults(values, last.key) = { Some(last.value) }
        /\ ~ReadOtherThan(last.key, last.value)
        /\ Paths(values) = Paths(before)

(***************************************************************************)
(* C11 - Only scalar leaves are stored: in every state reachable by        *)
(* construct and any sequence of replace, addOrSet, remove and merge       *)
(* calls, every stored value is a String, a Number, a Boolean or Null; no  *)
(* object or array is stored as a leaf.                                    *)
(***************************************************************************)
C11_OnlyScalarLeaves ==
    \A e \in values : e[2].value.kind \in {"String", "Number", "Bool", "Null"}

(***************************************************************************)
(* C16 - Type tag consistency: in every reachable state the tag of each    *)
(* stored entry is String iff its value is a string, Number iff a number,  *)
(* Bool iff a boolean and Null iff null, whichever call made the entry.    *)
(***************************************************************************)
C16_TypeTagConsistency ==
    \A e \in values :
        /\ e[2].value_type = "String" <=> e[2].value.kind = "String"
        /\ e[2].value_type = "Number" <=> e[2].value.kind = "Number"
        /\ e[2].value_type = "Bool" <=> e[2].value.kind = "Bool"
        /\ e[2].value_type = "Null" <=> e[2].value.kind = "Null"

\* a Document holding a number made by construct, next to a boolean made by
\* addOrSet and then a string made by replace
C16_Witness ==
    /\ last.op = "replace"
    /\ last.ret = RetBool(TRUE)
    /\ last.value.kind = "String"
    /\ \E e \in values : e[2].value.kind = "Number"
    /\ \E e \in before : e[2].value.kind = "Bool"

\* the entries stored at path q
EntriesAt(hashset, q) == { e \in hashset : e[1] = q }

(***************************************************************************)
(* C19 - Point mutations touch only their own path: replace(p, v),         *)
(* addOrSet(p, v) and remove(p) leave the entries of every path other than *)
(* p as they were: the same paths are present, with the same leaves.       *)
(***************************************************************************)
C19_PointMutationFrame ==
    last.op \in {"replace", "add_to_json", "remove_from_json"} =>
        /\ Paths(values) \ {last.key} = Paths(before) \ {last.key}
        /\ \A q \in (Paths(before) \cup Paths(values)) \ {last.key} :
                EntriesAt(values, q) = EntriesAt(before, q)

\* a remove that took an entry out of a Document holding another path too
C19_Witness ==
    /\ last.op = "remove_from_json"
    /\ last.ret = RetBool(TRUE)
    /\ values # before
    /\ Paths(before) \ {last.key} # {}

\* the path strings of the model
PathStrings == { StrPool[i] : i \in 1..Len(StrPool) }

\* the strings a sequence of keys holds
KeysIn(keys) == { keys[i] : i \in 1..Len(keys) }

(***************************************************************************)
(* C15 - Lookups are exact-match and mutually consistent: in any reachable *)
(* state and for every path string p, hasKey(p) is true iff getValue(p) is *)
(* not NotFound iff p occurs in listKeys(); a proper prefix of a stored    *)
(* path that is not itself stored is reported absent.                      *)
(***************************************************************************)
C15_LookupsExactAndConsistent ==
    /\ \A p \in PathStrings :
        /\ HasKey(values, p) <=> p \in Paths(values)
        /\ HasKey(values, p) <=> None \notin GetValueResults(values, p)
        /\ HasKey(values, p) <=> GetValueResults(values, p) # {None}
        /\ (query.op = "get_keys" => (HasKey(values, p) <=> p \in KeysIn(query.ret.keys)))
    /\ \A pq \in ProperPrefixPairs :
        (pq[2] \in Paths(values) /\ pq[1] \notin Paths(values))
            => ~HasKey(values, pq[1]) /\ GetValueResults(values, pq[1]) = {None}
    /\ (query.op = "has_key" => query.ret = RetBool(query.key \in Paths(values)))
    /\ (query.op = "get_value" => (query.ret # None <=> query.key \in Paths(values)))
    /\ (query.op = "get_keys" => KeysIn(query.ret.keys) = Paths(values))

\* hasKey("a") answered false on a Document that stores a.b and not a
C15_Witness ==
    /\ "a.b" \in Paths(values)
    /\ "a" \notin Paths(values)
    /\ query = Query("has_key", "a", RetBool(FALSE))

(***************************************************************************)
(* The scalar positions of a JSON value, taken from the tree itself: a     *)
(* position is the sequence of object keys and array indices leading to a  *)
(* scalar or null; its path joins the keys with '.' and writes an index i  *)
(* as '[i]'.                                                               *)
(***************************************************************************)
KeySeg(k) == [key |-> k]

IndexSeg(i) == [index |-> i]

RECURSIVE Positions(_, _)
Positions(v, pos) ==
    CASE v.kind = "Object" ->
           UNION { Positions(v.map[k], Append(pos, KeySeg(k))) : k \in DOMAIN v.map }
      [] v.kind = "Array" ->
           UNION { Positions(v.items[i], Append(pos, IndexSeg(i - 1)))
                   : i \in 1..Len(v.items) }
      [] OTHER -> {pos}

RECURSIVE PathOf(_)
PathOf(pos) ==
    IF pos = <<>> THEN ""
    ELSE LET pre == PathOf(SubSeq(pos, 1, Len(pos) - 1))
             seg == pos[Len(pos)]
         IN IF "key" \in DOMAIN seg
            THEN (IF pre = "" THEN seg.key ELSE pre \o "." \o seg.key)
            ELSE pre \o "[" \o ToString(seg.index) \o "]"

RECURSIVE ValueAt(_, _)
ValueAt(v, pos) ==
    IF pos = <<>> THEN v
    ELSE IF "key" \in DOMAIN pos[1]
         THEN ValueAt(v.map[pos[1].key], Tail(pos))
         ELSE ValueAt(v.items[pos[1].index + 1], Tail(pos))

\* the Document is fresh from construct on a well-formed text
Constructed == last.op = "new" /\ WellFormed(last.text)

\* the value that text is
Source == from_str(last.text).val

(***************************************************************************)
(* C12 - Flattening is correct: for any well-formed JSON value, construct  *)
(* stores exactly one entry per scalar or null position of the tree and    *)
(* none for objects or arrays, at the path of the position and holding the *)
(* scalar of the position.                                                 *)
(***************************************************************************)
C12_FlatteningCorrect ==
    Constructed =>
        /\ values = { <<PathOf(pos), Leaf(ValueAt(Source, pos))>>
                      : pos \in Positions(Source, <<>>) }
        /\ Cardinality(values) = Cardinality(Positions(Source, <<>>))

(***************************************************************************)
(* C13 - Uniqueness of flattened paths: for any constructed Document, no   *)
(* two scalar positions of the source are given the same path: the number  *)
(* of distinct stored paths is the number of scalar leaves of the source,  *)
(* and listKeys holds no path twice.                                       *)
(***************************************************************************)
C13_FlattenedPathsUnique ==
    Constructed =>
        /\ \A pos1 \in Positions(Source, <<>>) : \A pos2 \in Positions(Source, <<>>) :
                pos1 # pos2 => PathOf(pos1) # PathOf(pos2)
        /\ Cardinality(Paths(values)) = Cardinality(Positions(Source, <<>>))
        /\ (query.op = "get_keys" =>
                \A i \in 1..Len(query.ret.keys) : \A j \in 1..Len(query.ret.keys) :
                    i # j => query.ret.keys[i] # query.ret.keys[j])

(***************************************************************************)
(* C14 - Flat serialization reflects the store: in any reachable state,    *)
(* serializeFlat gives the text of one JSON object whose keys are exactly  *)
(* the stored paths and whose value at each key p is the leaf getValue(p)  *)
(* returns.                                                                *)
(***************************************************************************)
C14_FlatSerializationReflectsStore ==
    query.op = "to_json" =>
        /\ from_str(query.ret.text).ok
        /\ from_str(query.ret.text).val.kind = "Object"
        /\ DOMAIN from_str(query.ret.text).val.map = Paths(values)
        /\ \A p \in Paths(values) :
                GetValueResults(values, p) = { Some(from_str(query.ret.text).val.map[p]) }

(***************************************************************************)
(* The reference store: a map from path to value, keyed by the path alone. *)
(***************************************************************************)
\* the map a store with one entry per path is the graph of
AsMap(hashset) ==
    [p \in Paths(hashset) |-> (CHOOSE e \in hashset : e[1] = p)[2].value]

\* the map flattening a text gives: its scalar positions, by path
RefFlat(text) ==
    LET v == from_str(text).val IN
    [p \in { PathOf(pos) : pos \in Positions(v, <<>>) } |->
        ValueAt(v, CHOOSE pos \in Positions(v, <<>>) : PathOf(pos) = p)]

\* m with the entries of n upserted into it
RefUpsertAll(m, n) ==
    [p \in (DOMAIN m) \cup (DOMAIN n) |-> IF p \in DOMAIN n THEN n[p] ELSE m[p]]

RefRemove(m, key) == [p \in (DOMAIN m) \ {key} |-> m[p]]

RefGet(m, p) == IF p \in DOMAIN m THEN Some(m[p]) ELSE None

\* the reference map after the call `call` made on the map m
RefAfter(m, call) ==
    CASE call.op = "new" -> RefFlat(call.text)
      [] call.op = "replace" ->
            IF call.key \in DOMAIN m THEN MapInsert(m, call.key, call.value) ELSE m
      [] call.op = "add_to_json" -> MapInsert(m, call.key, call.value)
      [] call.op = "remove_from_json" -> RefRemove(m, call.key)
      [] call.op = "merge_json" ->
            IF WellFormed(call.text) THEN RefUpsertAll(m, RefFlat(call.text)) ELSE m

\* the boolean the reference map returns for the call
RefRet(m, call) ==
    IF call.op \in {"replace", "remove_from_json"}
    THEN RetBool(call.key \in DOMAIN m)
    ELSE Unit

\* no two entries of the store share a path
UniquePaths(hashset) ==
    \A e1 \in hashset : \A e2 \in hashset : e1[1] = e2[1] => e1 = e2

(***************************************************************************)
(* C17 - The set-of-pairs store refines a path-to-leaf map: the same calls *)
(* made on the store and on a reference map keyed by path give the same    *)
(* observable results at every step.  Stated as the step of the            *)
(* simulation: from every reachable store that is the graph of a map, the  *)
(* latest call returned what the map returns, and afterwards getValue,     *)
(* hasKey and the set of listKeys answer as the map after the call does.   *)
(***************************************************************************)
C17_RefinesPathMap ==
    UniquePaths(before) =>
        /\ last.ret = RefRet(AsMap(before), last)
        /\ Paths(values) = DOMAIN RefAfter(AsMap(before), last)
        /\ \A p \in PathStrings :
            /\ GetValueResults(values, p) = { RefGet(RefAfter(AsMap(before), last), p) }
            /\ HasKey(values, p) <=> p \in DOMAIN RefAfter(AsMap(before), last)
        /\ (query.op = "get_value" =>
                query.ret = RefGet(RefAfter(AsMap(before), last), query.key))
        /\ (query.op = "has_key" =>
                query.ret = RetBool(query.key \in DOMAIN RefAfter(AsMap(before), last)))
        /\ (query.op = "get_keys" =>
                KeysIn(query.ret.keys) = DOMAIN RefAfter(AsMap(before), last))

\* the key-to-value contents to_json may serialize, over the iteration orders
ToJsonContents(hashset) ==
    { JsonMap(ord, 1, EmptyMap) : ord \in IterOrders(hashset) }

(***************************************************************************)
(* C18 - Query determinism: two Documents driven by the same calls return  *)
(* the same getValue(p) for every path p and the same key-to-value content *)
(* from serializeFlat, whatever order their collections iterate in.        *)
(* Stated on one Document: in every reachable state each of the two        *)
(* queries has a single possible result over all iteration orders (two     *)
(* Documents that made the same calls and have reached the same store can  *)
(* differ in nothing but that order).                                      *)
(***************************************************************************)
C18_QueryDeterminism ==
    /\ \A p \in PathStrings : Cardinality(GetValueResults(values, p)) = 1
    /\ Cardinality(ToJsonContents(values)) = 1

\* this step is a call of merge_json with the text t
MergeStep(t) ==
    /\ last'.op = "merge_json"
    /\ last'.text = t
    /\ calls' = calls + 1
    /\ before' = values

(***************************************************************************)
(* C20 - Merge is idempotent: for any Document and any well-formed text t, *)
(* merging t a second time in a row leaves the Document as the first merge *)
(* left it, and merging t into a Document freshly constructed from t       *)
(* leaves it unchanged.                                                    *)
(***************************************************************************)
C20_MergeIdempotent ==
    [][ (/\ last.op \in {"merge_json", "new"}
         /\ WellFormed(last.text)
         /\ MergeStep(last.text))
            => values' = values ]_vars

\* a merge of a well-formed text t, with entries, into a Document that held
\* them all and others too (as it does after a first merge of t), which left
\* the Document as it was
C20_Witness ==
    /\ last.op = "merge_json"
    /\ WellFormed(last.text)
    /\ NewValues(last.text) # {}
    /\ NewValues(last.text) \subseteq before
    /\ before # NewValues(last.text)
    /\ values = before
    /\ calls = 2

====
